---- MODULE Spec2Model ----
(***************************************************************************)
(* A model of the patch-synthesis core of CONCH:                           *)
(*   - CallChainAnalyzer.assess_and_patch  (src/patch/call_chain.py)       *)
(*   - NPDContextGraph                     (src/analysis/context_graph.py) *)
(*   - find_null_dereferences, find_error_positions                        *)
(*                                         (src/analysis/npd_detector.py)  *)
(*   - ResourcePairs                       (src/analysis/resource_pairs.py)*)
(*   - PatchGenerator                      (src/patch/patch_generator.py)  *)
(*   - VariableResetter                    (src/patch/variable_reset.py)   *)
(*   - main, its two loops and the call of the patch merger (src/main.py)  *)
(*   - the patch merger PatchApplier.apply_patches, as spec.md 4.6         *)
(*     describes it                                                        *)
(* Each component is a state machine over its own variables; the other     *)
(* components' variables stay at their initial values.                     *)
(***************************************************************************)
EXTENDS Integers, Sequences, FiniteSets, TLC

(***************************************************************************)
(* Bounds.                                                                 *)
(***************************************************************************)
\* number of function names
NumFuncs == 3
\* largest number of caller->callee pairs in a call graph
MaxCallEdges == 3
\* largest number of edges of a control-flow graph
MaxCfgEdges == 3
\* largest number of dereference signals of a function
MaxDerefs == 1
\* largest number of edges added to a context graph by add_edge calls
MaxGraphEdges == 1
\* largest number of nodes below the root of a function body
MaxBodyNodes == 2
\* largest number of functions in the function table of a run of main
MaxMainFuncs == 2
\* largest number of lines of a file handed to the patch merger
MaxFileLines == 2
\* largest number of edit records of one kind handed to the patch merger
MaxEdits == 2

FuncNames == 1..NumFuncs

\* the line numbers of the function handed to build_from_function
Lines == 1..3

\* the interpreter's recursion limit, scaled: deeper than any chain of distinct names
RecursionLimit == NumFuncs + 2

VARIABLES
    \* ---- CallChainAnalyzer ----
    call_graph,       \* self.call_graph: caller name -> set of callee names
    functions,        \* self.functions: name -> FunctionDecl (partial)
    buggy_function,   \* the FunctionDecl given to assess_and_patch
    visited,          \* the closure variable visited
    patches,          \* the closure variable patches (a list)
    stack,            \* the activation records of recurse, innermost last
    ccPc,             \* position in assess_and_patch
    patchLog          \* history: the callers handed to _patch_caller, in order

ccVars == <<call_graph, functions, buggy_function, visited, patches, stack, ccPc, patchLog>>

VARIABLES
    \* ---- NPDContextGraph ----
    graph,            \* [nodes |-> self.nodes, edges |-> self.edges]
    lastCall,         \* the last method called on the graph, with its arguments
    result,           \* what that call returned or raised
    \* ---- one call of build_from_function ----
    deref_positions,  \* argument: list of (spelling, line)
    error_positions,  \* argument: list of lines
    cfg,              \* argument: line -> list of successor lines
    cgPc,             \* position in build_from_function, or "api" between calls
    derefIdx,         \* position of the third loop in deref_positions
    queue,            \* the local queue
    bfsVisited,       \* the local visited
    dequeued          \* history: per line, how often the current traversal has
                      \* dequeued it, counted up to 2

buildVars == <<deref_positions, error_positions, cfg, cgPc, derefIdx, queue, bfsVisited, dequeued>>
cgVars == <<graph, lastCall, result, buildVars>>

VARIABLES
    \* ---- one call of a per-function operation (detectors, synthesizers) ----
    function_decl,    \* argument: the FunctionDecl
    source_lines,     \* argument: the lines of its file
    synCall,          \* the operation called
    synResult         \* what it returned or raised

synVars == <<function_decl, source_lines, synCall, synResult>>

VARIABLES
    \* ---- main ----
    source_map,        \* file path -> lines, as load_source_files returns it
    all_patches,       \* the three lists that main collects
    all_reset_patches,
    all_chain_patches,
    mainPc,            \* position in main
    funcIdx            \* position of the current loop in functions.items()

mainVars == <<source_map, all_patches, all_reset_patches, all_chain_patches, mainPc, funcIdx>>

VARIABLES
    \* ---- PatchApplier.apply_patches ----
    updated_sources,   \* file path -> lines: the result under construction
    mergeTodo          \* the anchor lines whose edits are still to be applied

mergeVars == <<updated_sources, mergeTodo>>

VARIABLES
    \* ---- lookups in a ResourcePairs table ----
    tabAcquire,        \* acquire_func, the argument of get_release
    tabRelease,        \* release_func, the argument of get_acquire
    tabCall,           \* the last lookup made
    tabResult          \* what it returned

tabVars == <<tabAcquire, tabRelease, tabCall, tabResult>>

extVars == <<synVars, mainVars, mergeVars, tabVars>>

vars == <<ccVars, cgVars, extVars>>

\* no assess_and_patch call is under way
CallChainIdle ==
    /\ call_graph = <<>> /\ functions = <<>> /\ buggy_function = <<>>
    /\ visited = {} /\ patches = <<>> /\ stack = <<>> /\ ccPc = "idle" /\ patchLog = <<>>

\* the state of the build_from_function call while none is under way
NoBuild ==
    /\ deref_positions = <<>> /\ error_positions = <<>> /\ cfg = <<>>
    /\ derefIdx = 0 /\ queue = <<>> /\ bfsVisited = {} /\ dequeued = <<>>

\* NPDContextGraph.__init__
EmptyGraph == [nodes |-> <<>>, edges |-> <<>>]

NoCall == [op |-> "none"]
NoResult == [status |-> "none"]

\* no context graph is in use
ContextGraphIdle ==
    /\ graph = EmptyGraph /\ lastCall = NoCall /\ result = NoResult
    /\ cgPc = "idle" /\ NoBuild

\* no per-function operation is under way
SynthIdle ==
    /\ function_decl = <<>> /\ source_lines = <<>>
    /\ synCall = NoCall /\ synResult = NoResult

\* main is not running
MainIdle ==
    /\ source_map = <<>> /\ all_patches = <<>> /\ all_reset_patches = <<>>
    /\ all_chain_patches = <<>> /\ mainPc = "idle" /\ funcIdx = 0

\* the patch merger is not running
MergeIdle == updated_sources = <<>> /\ mergeTodo = {}

\* no lookup in the resource table is under way
TableIdle == tabAcquire = 0 /\ tabRelease = 0 /\ tabCall = NoCall /\ tabResult = NoResult

ExtIdle == SynthIdle /\ MainIdle /\ MergeIdle /\ TableIdle

(***************************************************************************)
(* FunctionDecl and ASTNode (src/parser/c_parser.py).                      *)
(***************************************************************************)
\* a type spelling is a sequence of tokens
ReturnTypes == << <<"void">>, <<"char", "*">>, <<"int">> >>

\* str.endswith('*')
EndsWithStar(type) == Len(type) > 0 /\ type[Len(type)] = "*"

FileOf(name) == "src.c"

\* the line of the FunctionDecl of name, and of its call to callee
DeclLine(name) == 10 * name
CallLine(name, callee) == 10 * name + callee

ASTNode(kind, spelling, location) ==
    [kind |-> kind, spelling |-> spelling, location |-> location]

RECURSIVE CallNodes(_, _)
\* one CallExpr node per callee, in source order
CallNodes(name, callees) ==
    IF callees = {} THEN <<>>
    ELSE LET c == CHOOSE x \in callees : \A y \in callees : x <= y
         IN  <<ASTNode("CallExpr", c, <<FileOf(name), CallLine(name, c)>>)>>
                 \o CallNodes(name, callees \ {c})

\* ASTNode.walk(): the nodes of a body in depth-first order, the root first
Walk(name, callees) ==
    <<ASTNode("CompoundStmt", 0, <<FileOf(name), DeclLine(name)>>)>>
        \o CallNodes(name, callees)

\* A FunctionDecl; body is Optional: <<>> is None, <<w>> is a body whose walk() is w.
\* callees is the set of CallExpr spellings of the body, as _process_function_decl sets it.
FunctionDecl(name, callees, hasBody) ==
    [name        |-> name,
     location    |-> <<FileOf(name), DeclLine(name)>>,
     return_type |-> ReturnTypes[(name % 3) + 1],
     body        |-> IF hasBody THEN <<Walk(name, callees)>> ELSE <<>>,
     callees     |-> callees]

(***************************************************************************)
(* CallChainAnalyzer (src/patch/call_chain.py).                            *)
(***************************************************************************)
CallChainPatch(file_path, line_number, new_lines) ==
    [file_path |-> file_path, line_number |-> line_number, new_lines |-> new_lines]

\* the return statement chosen by the caller's return type
ReturnLine(caller_decl) ==
    IF caller_decl.return_type = <<"void">> THEN "    return;"
    ELSE IF EndsWithStar(caller_decl.return_type) THEN "    return NULL;"
    ELSE "    return -1;"

\* the lines inserted at one call site
NewLines(caller_decl, callee_decl) ==
    IF callee_decl.return_type = <<"void">>
    THEN << <<"if (/* error handled in ", callee_decl.name, " */ false) {">>,
            ReturnLine(caller_decl), "}" >>
    ELSE << <<"auto ret_val = ", callee_decl.name, "();">>,
            "if (ret_val == NULL) {", ReturnLine(caller_decl), "}" >>

\* a scan that takes every call expression for a call site
IsAnyCall(node, callee_decl) == node.kind = "CallExpr"

\* the condition of the call-site scan
IsCallSite(node, callee_decl) ==
    node.kind = "CallExpr" /\ node.spelling = callee_decl.name

RECURSIVE ScanCallSites(_, _, _)
ScanCallSites(walk, caller_decl, callee_decl) ==
    IF walk = <<>> THEN <<>>
    ELSE (IF IsCallSite(Head(walk), callee_decl)
          THEN <<CallChainPatch(caller_decl.location[1], Head(walk).location[2],
                                NewLines(caller_decl, callee_decl))>>
          ELSE <<>>)
         \o ScanCallSites(Tail(walk), caller_decl, callee_decl)

\* caller_decl.body.walk() raises AttributeError when body is None
PatchCallerRaises(caller_decl) == caller_decl.body = <<>>

\* _patch_caller, for a caller with a body
PatchCaller(caller_decl, callee_decl) ==
    ScanCallSites(caller_decl.body[1], caller_decl, callee_decl)

\* The keys of call_graph in the order of .items(), the insertion order of the dict:
\* the names are numbered in that order. The buggy function is any of them.
CallGraphKeys == [i \in 1..NumFuncs |-> i]

\* a wrong membership test: only a function whose sole callee is func_name counts
IsOnlyCallee(func_name, callees) == callees = {func_name}

\* `func_name in callees`
IsCallee(func_name, callees) == func_name \in callees

\* the visited guard left out
NeverVisited(func_name, seen) == FALSE

\* `func_name in visited`
AlreadyVisited(func_name, seen) == func_name \in seen

\* visited.add(func_name)
VisitedAdd(seen, func_name) == seen \cup {func_name}

\* self.functions.get(caller) is truthy
HasDecl(table, caller) == caller \in DOMAIN table

Frame(func_name, at) == [func_name |-> func_name, at |-> at]

Top == stack[Len(stack)]
Pop == SubSeq(stack, 1, Len(stack) - 1)
SetTop(frame) == [stack EXCEPT ![Len(stack)] = frame]

NoneOrOne(S) == {{}} \cup {{x} : x \in S}

CallEdges(g) == {<<a, b>> \in FuncNames \X FuncNames : b \in g[a]}

\* An analyzer and the argument of one assess_and_patch call. call_graph gives every
\* name a callee set: for recurse a name without callees is the same as a missing key.
InitCallChain ==
    /\ ContextGraphIdle /\ ExtIdle
    /\ call_graph \in [FuncNames -> SUBSET FuncNames]
    /\ Cardinality(CallEdges(call_graph)) <= MaxCallEdges
    \* at most one name has no FunctionDecl, or a FunctionDecl without a body
    /\ \E absent \in NoneOrOne(FuncNames) : \E bodiless \in NoneOrOne(FuncNames \ absent) :
          /\ absent = {} \/ bodiless = {}
          /\ functions = [n \in FuncNames \ absent |->
                             FunctionDecl(n, call_graph[n], n \notin bodiless)]
    /\ \E n \in FuncNames : buggy_function = FunctionDecl(n, call_graph[n], TRUE)
    /\ visited = {}
    /\ patches = <<>>
    /\ stack = <<>>
    /\ ccPc = "start"
    /\ patchLog = <<>>

\* recurse(buggy_function.name)
AssessStart ==
    /\ ccPc = "start"
    /\ ccPc' = "recurse"
    /\ stack' = <<Frame(buggy_function.name, 0)>>
    /\ UNCHANGED <<call_graph, functions, buggy_function, visited, patches, patchLog, cgVars, extVars>>

\* entry of recurse: the visited guard
RecurseEnter ==
    /\ ccPc = "recurse" /\ stack # <<>> /\ Top.at = 0
    /\ IF AlreadyVisited(Top.func_name, visited)
       THEN stack' = Pop /\ visited' = visited
       ELSE /\ visited' = VisitedAdd(visited, Top.func_name)
            /\ stack' = SetTop(Frame(Top.func_name, 1))
    /\ UNCHANGED <<call_graph, functions, buggy_function, patches, ccPc, patchLog, cgVars, extVars>>

\* the positions, from position `at` on, of the keys whose callees hold func_name
\* and that have a FunctionDecl: the iterations of the loop of recurse that do anything
CallerPositions(func_name, at) ==
    {i \in at..NumFuncs : /\ IsCallee(func_name, call_graph[CallGraphKeys[i]])
                          /\ HasDecl(functions, CallGraphKeys[i])}

Min(S) == CHOOSE x \in S : \A y \in S : x <= y

\* `for caller, callees in self.call_graph.items()`: the loop runs on to the next caller
\* of func_name that has a FunctionDecl, patches it and calls recurse(caller). The
\* caller is patched before recurse tests whether it was visited. A caller without a
\* body ends the call with AttributeError.
RecurseCaller ==
    /\ ccPc = "recurse" /\ stack # <<>> /\ Top.at >= 1
    /\ CallerPositions(Top.func_name, Top.at) # {}
    /\ LET at     == Min(CallerPositions(Top.func_name, Top.at))
           caller == CallGraphKeys[at]
           next   == SetTop(Frame(Top.func_name, at + 1))
       IN  IF PatchCallerRaises(functions[caller])
           THEN /\ ccPc' = "raised"
                /\ patchLog' = Append(patchLog, caller)
                /\ UNCHANGED <<patches, stack>>
           ELSE /\ patches' = patches \o PatchCaller(functions[caller], buggy_function)
                /\ patchLog' = Append(patchLog, caller)
                /\ IF Len(stack) < RecursionLimit
                   THEN stack' = Append(next, Frame(caller, 0)) /\ ccPc' = ccPc
                   ELSE stack' = stack /\ ccPc' = "recursion_error"
    /\ UNCHANGED <<call_graph, functions, buggy_function, visited, cgVars, extVars>>

\* the loop of recurse finds no further caller: recurse returns
RecurseReturn ==
    /\ ccPc = "recurse" /\ stack # <<>> /\ Top.at >= 1
    /\ CallerPositions(Top.func_name, Top.at) = {}
    /\ stack' = Pop
    /\ UNCHANGED <<call_graph, functions, buggy_function, visited, patches, ccPc, patchLog, cgVars, extVars>>

\* `return patches`
AssessReturn ==
    /\ ccPc = "recurse" /\ stack = <<>>
    /\ ccPc' = "done"
    /\ UNCHANGED <<call_graph, functions, buggy_function, visited, patches, stack, patchLog, cgVars, extVars>>

NextCallChain ==
    \/ AssessStart
    \/ RecurseEnter
    \/ RecurseCaller
    \/ RecurseReturn
    \/ AssessReturn

SpecCallChain == InitCallChain /\ [][NextCallChain]_vars

\* assess_and_patch is one sequential call: it keeps running until it returns or raises
FairSpecCallChain == SpecCallChain /\ WF_vars(NextCallChain)

(***************************************************************************)
(* Properties of assess_and_patch.                                         *)
(***************************************************************************)
Elems(seq) == {seq[i] : i \in DOMAIN seq}

NoRepeats(seq) == \A i, j \in DOMAIN seq : i # j => seq[i] # seq[j]

\* the callers of the names in S
CallersOf(S) == {c \in FuncNames : call_graph[c] \cap S # {}}

RECURSIVE CallerClosure(_)
\* the least set that holds the callers of S and the callers of its members
CallerClosure(S) ==
    LET more == S \cup CallersOf(S)
    IN  IF more = S THEN S ELSE CallerClosure(more)

\* the functions with a non-empty call path to name
TransitiveCallers(name) == CallerClosure(CallersOf({name}))

\* the (caller file, call-site line) anchors of the patches built so far
Anchors == [i \in DOMAIN patches |-> <<patches[i].file_path, patches[i].line_number>>]

\* C1: in one run of assess_and_patch no caller is handed to _patch_caller twice, and
\* the list of patches holds at most one CallChainPatch per (caller, call-site line).
C1_EachCallerPatchedOnce == NoRepeats(patchLog) /\ NoRepeats(Anchors)

\* C2: assess_and_patch terminates (it returns, or it raises out of _patch_caller) on
\* every call graph, with direct and mutual recursion through the buggy function.
C2_AssessTerminates == <>(ccPc \in {"done", "raised"})

\* C2 witness: the call has returned on a graph in which the buggy function is part of
\* a call cycle, so the traversal came back to a visited name.
C2_ReturnedOnCycle ==
    /\ ccPc = "done"
    /\ buggy_function.name \in TransitiveCallers(buggy_function.name)
    /\ buggy_function.name \in Elems(patchLog)

\* every key of the call graph that calls anything has a FunctionDecl
KeysHaveDecls == \A c \in FuncNames : call_graph[c] # {} => HasDecl(functions, c)

\* C5: when every call-graph key is in the function table, the callers that a returned
\* assess_and_patch has processed are exactly the functions with a non-empty call path
\* to the buggy function.
C5_ProcessedAreTransitiveCallers ==
    (ccPc = "done" /\ KeysHaveDecls) =>
        Elems(patchLog) = TransitiveCallers(buggy_function.name)

\* C5 witness: a returned run that processed a caller with no direct call to the
\* buggy function.
C5_IndirectCallerProcessed ==
    /\ ccPc = "done" /\ KeysHaveDecls
    /\ \E c \in Elems(patchLog) : buggy_function.name \notin call_graph[c]

\* the call expressions in the bodies of the function table whose callee is name
CallsTo(name) ==
    UNION {{node \in Elems(functions[c].body[1]) :
                node.kind = "CallExpr" /\ node.spelling = name}
           : c \in {d \in DOMAIN functions : functions[d].body # <<>>}}

\* the patches built so far that lie on a line of the body of function c
PatchesOn(c) ==
    {i \in DOMAIN patches :
        \E node \in Elems(functions[c].body[1]) :
            node.location = <<patches[i].file_path, patches[i].line_number>>}

\* C21: every CallChainPatch that assess_and_patch has built, so every one it returns,
\* is anchored at the file and line of a call expression whose callee name is the name
\* of the buggy function; a function that was processed as a caller and has no call of
\* the buggy function in its body has no patch on any of its lines.
C21_AnchoredAtCallsOfBuggyName ==
    /\ \A i \in DOMAIN patches :
          \E node \in CallsTo(buggy_function.name) :
              node.location = <<patches[i].file_path, patches[i].line_number>>
    /\ \A c \in DOMAIN functions :
          (functions[c].body # <<>> /\ buggy_function.name \notin functions[c].callees) =>
              PatchesOn(c) = {}

\* C21 witness: assess_and_patch has returned patches after it processed a caller that
\* calls some function, but not the buggy one, and reaches the buggy one through it.
C21_ReturnedWithUnpatchedIndirectCaller ==
    /\ ccPc = "done" /\ patches # <<>>
    /\ \E c \in Elems(patchLog) :
          /\ functions[c].body # <<>>
          /\ functions[c].callees # {}
          /\ buggy_function.name \notin functions[c].callees
          /\ c \in TransitiveCallers(buggy_function.name)
          /\ PatchesOn(c) = {}

(***************************************************************************)
(* NPDContextGraph (src/analysis/context_graph.py).                        *)
(***************************************************************************)
Kinds == {"null_position", "error_position", "statement"}

\* the function whose graph is built
BuildFunc == "f"

\* f"{func_name}_null_{line}" and f"{func_name}_error_{line}". The text is kept as its
\* three parts; tag and line hold no "_", so two ids are equal exactly when their
\* parts are.
NodeId(func_name, tag, line) == <<func_name, tag, line>>

GraphNode(identifier, kind, location) ==
    [identifier |-> identifier, kind |-> kind, location |-> location, successors |-> {}]

\* d[k] = v on a dict
Put(d, k, v) == [x \in DOMAIN d \cup {k} |-> IF x = k THEN v ELSE d[x]]

\* self.edges.get(node_id, [])
EdgesGet(g, node_id) == IF node_id \in DOMAIN g.edges THEN g.edges[node_id] ELSE {}

\* an add_node that stores the new GraphNode whether or not the id exists
add_node_overwrite(g, node_id, kind, location) ==
    [g EXCEPT !.nodes = Put(g.nodes, node_id, GraphNode(node_id, kind, location))]

add_node(g, node_id, kind, location) ==
    IF node_id \notin DOMAIN g.nodes
    THEN [g EXCEPT !.nodes = Put(g.nodes, node_id, GraphNode(node_id, kind, location))]
    ELSE g

add_edge(g, from_id, to_id) ==
    [nodes |-> IF from_id \in DOMAIN g.nodes
               THEN [g.nodes EXCEPT ![from_id].successors = @ \cup {to_id}]
               ELSE g.nodes,
     edges |-> Put(g.edges, from_id, EdgesGet(g, from_id) \cup {to_id})]

\* self.nodes[succ] raises KeyError when a successor of a null_position node is no node
GetFixCandidatesRaises(g) ==
    \E n \in DOMAIN g.nodes :
        /\ g.nodes[n].kind = "null_position"
        /\ \E succ \in EdgesGet(g, n) : succ \notin DOMAIN g.nodes

\* get_fix_candidates when it returns. The list is given as a set: it has no repeats
\* (node ids are dict keys, the successors of a node are a set).
get_fix_candidates(g) ==
    {c \in (DOMAIN g.nodes) \X (DOMAIN g.nodes) :
        /\ g.nodes[c[1]].kind = "null_position"
        /\ c[2] \in EdgesGet(g, c[1])
        /\ g.nodes[c[2]].kind = "error_position"}

RECURSIVE Orders(_)
\* the orders in which a set can be iterated
Orders(S) ==
    IF S = {} THEN {<<>>}
    ELSE UNION {{<<x>> \o o : o \in Orders(S \ {x})} : x \in S}

RECURSIVE Unseen(_, _)
\* the members of a list that are not in seen, in list order
Unseen(list, seen) ==
    IF list = <<>> THEN <<>>
    ELSE (IF Head(list) \in seen THEN <<>> ELSE <<Head(list)>>) \o Unseen(Tail(list), seen)

RECURSIVE ShortestPathRuns(_, _, _, _)
\* The loop of compute_shortest_paths from a queue of (node, dist) pairs: the dicts it
\* can return, each as its list of (node, dist) items in insertion order. The
\* successors of a node are a set of strings, iterated in any order.
ShortestPathRuns(g, q, seen, distances) ==
    IF q = <<>> THEN {distances}
    ELSE LET node_id == Head(q)[1]
             dist    == Head(q)[2]
             succs   == EdgesGet(g, node_id)
         IN  UNION {ShortestPathRuns(
                        g,
                        Tail(q) \o [i \in DOMAIN Unseen(o, seen) |->
                                       <<Unseen(o, seen)[i], dist + 1>>],
                        seen \cup succs,
                        Append(distances, <<node_id, dist>>))
                    : o \in Orders(succs)}

compute_shortest_paths(g, start_node) ==
    ShortestPathRuns(g, << <<start_node, 0>> >>, {start_node}, <<>>)

\* self.nodes[node_id] raises KeyError for a reached id that is no node
SelectRaises(g, distances) ==
    \E i \in DOMAIN distances : distances[i][1] \notin DOMAIN g.nodes

\* `dist < min_dist`; float('inf') is <<>>
BelowMin(dist, min_dist) == min_dist = <<>> \/ dist < min_dist[1]

RECURSIVE SelectLoop(_, _, _, _)
\* the loop of select_fix_position_policy over distances.items(); None is <<>>
SelectLoop(g, items, min_dist, selected) ==
    IF items = <<>> THEN selected
    ELSE LET node_id == Head(items)[1]
             dist    == Head(items)[2]
         IN  IF /\ g.nodes[node_id].kind = "error_position"
                /\ dist > 0
                /\ BelowMin(dist, min_dist)
             THEN SelectLoop(g, Tail(items), <<dist>>, <<node_id>>)
             ELSE SelectLoop(g, Tail(items), min_dist, selected)

\* ---- build_from_function ----
Range(seq) == {seq[i] : i \in DOMAIN seq}

RECURSIVE AddNullNodes(_, _, _)
\* the first loop
AddNullNodes(g, func_name, derefs) ==
    IF derefs = <<>> THEN g
    ELSE AddNullNodes(add_node(g, NodeId(func_name, "null", Head(derefs)[2]),
                               "null_position", <<func_name, Head(derefs)[2]>>),
                      func_name, Tail(derefs))

RECURSIVE AddErrorNodes(_, _, _)
\* the second loop
AddErrorNodes(g, func_name, errs) ==
    IF errs = <<>> THEN g
    ELSE AddErrorNodes(add_node(g, NodeId(func_name, "error", Head(errs)),
                                "error_position", <<func_name, Head(errs)>>),
                       func_name, Tail(errs))

\* cfg.get(line, [])
CfgGet(c, line) == IF line \in DOMAIN c THEN c[line] ELSE <<>>

\* `line in error_positions and line > null_line`
IsLaterError(line, null_line, errs) == line \in Range(errs) /\ line > null_line

RECURSIVE EnqueueUnvisited(_, _, _)
\* `for succ in ...: if succ not in visited: visited.add(succ); queue.append(succ)`
EnqueueUnvisited(succs, seen, q) ==
    IF succs = <<>> THEN [visited |-> seen, queue |-> q]
    ELSE IF Head(succs) \notin seen
         THEN EnqueueUnvisited(Tail(succs), seen \cup {Head(succs)}, Append(q, Head(succs)))
         ELSE EnqueueUnvisited(Tail(succs), seen, q)

\* an iteration that stops the traversal at the first error line it connects
BfsIterationStopAtMatch(g, func_name, null_line, errs, c, q, seen) ==
    LET line == Head(q)
    IN  IF IsLaterError(line, null_line, errs)
        THEN [graph   |-> add_edge(g, NodeId(func_name, "null", null_line),
                                   NodeId(func_name, "error", line)),
              visited |-> seen, queue |-> <<>>]
        ELSE LET e == EnqueueUnvisited(CfgGet(c, line), seen, Tail(q))
             IN  [graph |-> g, visited |-> e.visited, queue |-> e.queue]

\* an iteration that enqueues every successor and records none as visited
BfsIterationNoVisited(g, func_name, null_line, errs, c, q, seen) ==
    LET line == Head(q)
    IN  [graph   |-> IF IsLaterError(line, null_line, errs)
                     THEN add_edge(g, NodeId(func_name, "null", null_line),
                                   NodeId(func_name, "error", line))
                     ELSE g,
         visited |-> seen,
         queue   |-> Tail(q) \o CfgGet(c, line)]

\* one iteration of `while queue`
BfsIteration(g, func_name, null_line, errs, c, q, seen) ==
    LET line == Head(q)
        e    == EnqueueUnvisited(CfgGet(c, line), seen, Tail(q))
    IN  [graph   |-> IF IsLaterError(line, null_line, errs)
                     THEN add_edge(g, NodeId(func_name, "null", null_line),
                                   NodeId(func_name, "error", line))
                     ELSE g,
         visited |-> e.visited,
         queue   |-> e.queue]

RECURSIVE SortedSeq(_)
\* sorted(set(...))
SortedSeq(S) ==
    IF S = {} THEN <<>>
    ELSE LET m == CHOOSE x \in S : \A y \in S : x <= y
         IN  <<m>> \o SortedSeq(S \ {m})

\* a control-flow graph as the dict of the lines that have successors
CfgOf(rel) ==
    [l \in {e[1] : e \in rel} |-> SortedSeq({e[2] : e \in {d \in rel : d[1] = l}})]

DerefLists ==
    UNION {{[i \in 1..n |-> <<"p->x", ls[i]>>] : ls \in [1..n -> Lines]} : n \in 0..MaxDerefs}

\* the queue never holds more than the start line and every line once
QueueCap == Cardinality(Lines) + 1

\* A newly constructed graph and the arguments of one build_from_function call.
InitBuild ==
    /\ CallChainIdle /\ ExtIdle
    /\ graph = EmptyGraph /\ lastCall = NoCall /\ result = NoResult
    /\ \E rel \in SUBSET (Lines \X Lines) :
          /\ Cardinality(rel) <= MaxCfgEdges
          /\ cfg = CfgOf(rel)
    /\ deref_positions \in DerefLists
    /\ error_positions \in {SortedSeq(S) : S \in SUBSET Lines}
    /\ cgPc = "build"
    /\ derefIdx = 0 /\ queue = <<>> /\ bfsVisited = {}
    /\ dequeued = [l \in Lines |-> 0]

\* the two loops that add the null_position and the error_position nodes
BuildAddNodes ==
    /\ cgPc = "build"
    /\ graph' = AddErrorNodes(AddNullNodes(graph, BuildFunc, deref_positions),
                              BuildFunc, error_positions)
    /\ lastCall' = [op |-> "build_from_function"]
    /\ cgPc' = "deref"
    /\ derefIdx' = 1
    /\ UNCHANGED <<result, deref_positions, error_positions, cfg, queue, bfsVisited,
                   dequeued, ccVars, extVars>>

\* the third loop takes the next dereference: visited = set(), queue = deque([null_line])
BuildNextDeref ==
    /\ cgPc = "deref" /\ derefIdx <= Len(deref_positions)
    /\ bfsVisited' = {}
    /\ queue' = <<deref_positions[derefIdx][2]>>
    /\ dequeued' = [l \in Lines |-> 0]
    /\ cgPc' = "bfs"
    /\ UNCHANGED <<graph, lastCall, result, deref_positions, error_positions, cfg,
                   derefIdx, ccVars, extVars>>

\* one iteration of `while queue`, and the loop test after it
BuildBfsStep ==
    /\ cgPc = "bfs" /\ queue # <<>>
    /\ LET null_line == deref_positions[derefIdx][2]
           it == BfsIteration(graph, BuildFunc, null_line, error_positions, cfg,
                              queue, bfsVisited)
       IN  /\ Len(it.queue) <= QueueCap
           /\ graph' = it.graph
           /\ bfsVisited' = it.visited
           /\ queue' = it.queue
           /\ dequeued' = [dequeued EXCEPT ![Head(queue)] = IF @ < 2 THEN @ + 1 ELSE @]
           /\ IF it.queue = <<>>
              THEN cgPc' = "deref" /\ derefIdx' = derefIdx + 1
              ELSE cgPc' = "bfs" /\ derefIdx' = derefIdx
    /\ UNCHANGED <<lastCall, result, deref_positions, error_positions, cfg, ccVars, extVars>>

\* the third loop is exhausted: build_from_function returns
BuildReturn ==
    /\ cgPc = "deref" /\ derefIdx > Len(deref_positions)
    /\ cgPc' = "built"
    /\ UNCHANGED <<graph, lastCall, result, deref_positions, error_positions, cfg,
                   derefIdx, queue, bfsVisited, dequeued, ccVars, extVars>>

NextBuild ==
    \/ BuildAddNodes
    \/ BuildNextDeref
    \/ BuildBfsStep
    \/ BuildReturn

SpecBuild == InitBuild /\ [][NextBuild]_vars

\* build_from_function is one sequential call: it keeps running until it returns
FairSpecBuild == SpecBuild /\ WF_vars(NextBuild)

(***************************************************************************)
(* Calls on a context graph: add_node and add_edge in any order, and the   *)
(* queries. The queries are also made on the graph that a build has left.  *)
(***************************************************************************)
\* the ids of add_node and add_edge calls
ApiIds == {NodeId(BuildFunc, "null", 1), NodeId(BuildFunc, "error", 2),
           NodeId(BuildFunc, "error", 3)}

\* the ids that a build for BuildFunc can give to nodes
BuildIds == {NodeId(BuildFunc, tag, l) : tag \in {"null", "error"}, l \in Lines}

\* the locations given for an id: the one its text names and, for a null id, also
\* the line after it
ApiLocations(node_id) ==
    {<<node_id[1], node_id[3]>>}
        \cup (IF node_id[2] = "null" THEN {<<node_id[1], node_id[3] + 1>>} ELSE {})

QueryIds == IF cgPc = "api" THEN ApiIds ELSE BuildIds

EdgeCount(g) == Cardinality({e \in ApiIds \X ApiIds : e[2] \in EdgesGet(g, e[1])})

InitGraph ==
    /\ CallChainIdle /\ ExtIdle
    /\ graph = EmptyGraph /\ lastCall = NoCall /\ result = NoResult
    /\ cgPc = "api"
    /\ NoBuild

Returned(value) == [status |-> "ok", value |-> value]
Raised(error) == [status |-> error]

AddNode(node_id, kind, location) ==
    /\ cgPc = "api"
    /\ graph' = add_node(graph, node_id, kind, location)
    /\ lastCall' = [op |-> "add_node", node_id |-> node_id,
                    existed |-> node_id \in DOMAIN graph.nodes]
    /\ result' = Returned(<<>>)
    /\ UNCHANGED <<buildVars, ccVars, extVars>>

AddEdge(from_id, to_id) ==
    /\ cgPc = "api"
    /\ to_id \in EdgesGet(graph, from_id) \/ EdgeCount(graph) < MaxGraphEdges
    /\ graph' = add_edge(graph, from_id, to_id)
    /\ lastCall' = [op |-> "add_edge"]
    /\ result' = Returned(<<>>)
    /\ UNCHANGED <<buildVars, ccVars, extVars>>

GetFixCandidates ==
    /\ cgPc \in {"api", "built"}
    /\ lastCall' = [op |-> "get_fix_candidates"]
    /\ result' = IF GetFixCandidatesRaises(graph) THEN Raised("KeyError")
                 ELSE Returned(get_fix_candidates(graph))
    /\ UNCHANGED <<graph, buildVars, ccVars, extVars>>

ComputeShortestPaths(start_node) ==
    /\ cgPc \in {"api", "built"}
    /\ lastCall' = [op |-> "compute_shortest_paths", start_node |-> start_node]
    /\ \E distances \in compute_shortest_paths(graph, start_node) :
          result' = Returned(distances)
    /\ UNCHANGED <<graph, buildVars, ccVars, extVars>>

SelectFixPositionPolicy(null_node_id) ==
    /\ cgPc \in {"api", "built"}
    /\ lastCall' = [op |-> "select_fix_position_policy", null_node_id |-> null_node_id]
    /\ IF null_node_id \notin DOMAIN graph.nodes
       THEN result' = Returned(<<>>)
       ELSE \E distances \in compute_shortest_paths(graph, null_node_id) :
               result' = IF SelectRaises(graph, distances) THEN Raised("KeyError")
                         ELSE Returned(SelectLoop(graph, distances, <<>>, <<>>))
    /\ UNCHANGED <<graph, buildVars, ccVars, extVars>>

NextGraph ==
    \/ \E node_id \in ApiIds : \E kind \in Kinds : \E location \in ApiLocations(node_id) :
          AddNode(node_id, kind, location)
    \/ \E from_id, to_id \in ApiIds : AddEdge(from_id, to_id)
    \/ GetFixCandidates
    \/ \E start_node \in QueryIds : ComputeShortestPaths(start_node)
    \/ \E null_node_id \in QueryIds : SelectFixPositionPolicy(null_node_id)

SpecGraph == InitGraph /\ [][NextGraph]_vars

\* a build, and queries on the graph it leaves
NextBuildQuery ==
    \/ BuildAddNodes
    \/ BuildNextDeref
    \/ BuildBfsStep
    \/ BuildReturn
    \/ GetFixCandidates
    \/ \E start_node \in QueryIds : ComputeShortestPaths(start_node)
    \/ \E null_node_id \in QueryIds : SelectFixPositionPolicy(null_node_id)

SpecBuildQuery == InitBuild /\ [][NextBuildQuery]_vars

(***************************************************************************)
(* Properties of build_from_function.                                      *)
(***************************************************************************)
\* the successors of the lines of S in the control-flow graph
CfgSuccessors(S) == UNION {Range(CfgGet(cfg, l)) : l \in S}

RECURSIVE CfgClosure(_)
\* the least set that holds S and the successors of its members
CfgClosure(S) ==
    LET more == S \cup CfgSuccessors(S)
    IN  IF more = S THEN S ELSE CfgClosure(more)

\* the lines reachable from line L by a path of at least one edge
ReachableAfter(L) == CfgClosure(CfgSuccessors({L}))

\* the error nodes of the error lines after L that the control-flow graph reaches from L
LaterReachableErrors(L) ==
    {NodeId(BuildFunc, "error", E) :
        E \in {e \in Range(error_positions) : e > L /\ e \in ReachableAfter(L)}}

DerefLines == {deref_positions[i][2] : i \in DOMAIN deref_positions}

\* C3: when build_from_function has returned, the edges that leave null@L, in the edge
\* index and in the node's successor set, are exactly the nodes error@E with E an error
\* line, E > L and E reachable from L in the control-flow graph, for every dereference
\* line L.
C3_EdgesAreLaterReachableErrors ==
    cgPc = "built" =>
        \A L \in DerefLines :
            /\ EdgesGet(graph, NodeId(BuildFunc, "null", L)) = LaterReachableErrors(L)
            /\ graph.nodes[NodeId(BuildFunc, "null", L)].successors = LaterReachableErrors(L)

\* C3 witness: a finished build in which a dereference is connected to an error line
\* that the traversal reaches only by going on from another connected error line.
C3_ConnectedBeyondFirstError ==
    /\ cgPc = "built"
    /\ \E L \in DerefLines : \E E1, E2 \in Range(error_positions) :
          /\ L < E1 /\ L < E2 /\ E1 # E2
          /\ CfgSuccessors({L}) = {E1}
          /\ E2 \in Range(CfgGet(cfg, E1))
          /\ NodeId(BuildFunc, "error", E2) \in EdgesGet(graph, NodeId(BuildFunc, "null", L))

\* C4: build_from_function returns on every control-flow graph, with cycles and
\* self-loops.
C4_BuildTerminates == <>(cgPc = "built")

\* C4 witness: a finished build whose traversal started on a line that lies on a cycle
\* of the control-flow graph and on a line that is its own successor.
C4_BuiltOnCyclicCfg ==
    /\ cgPc = "built"
    /\ \E L \in DerefLines : L \in ReachableAfter(L) /\ L \notin CfgSuccessors({L})
    /\ \E l \in Lines : l \in CfgSuccessors({l}) /\ l \in UNION {ReachableAfter(L) : L \in DerefLines}

\* C20: in the traversal that build_from_function runs for one dereference signal at
\* line L, no line of the control-flow graph, the start line L included, is dequeued
\* and processed more than once.
C20_EachLineDequeuedAtMostOnce ==
    \A l \in DOMAIN dequeued : dequeued[l] <= 1

(***************************************************************************)
(* Properties of the graph calls.                                          *)
(***************************************************************************)
RECURSIVE Within(_, _)
\* the ids within k edges of start in the edge index
Within(start, k) ==
    IF k = 0 THEN {start}
    ELSE LET w == Within(start, k - 1)
         IN  w \cup UNION {EdgesGet(graph, n) : n \in w}

MaxDistance == Cardinality(BuildIds)

\* the number of edges of a shortest path from start to v
Distance(start, v) ==
    CHOOSE k \in 0..MaxDistance :
        v \in Within(start, k) /\ (k = 0 \/ v \notin Within(start, k - 1))

\* the error_position nodes reached from start over at least one edge
ErrorNodesReached(start) ==
    {v \in Within(start, MaxDistance) \ {start} :
        v \in DOMAIN graph.nodes /\ graph.nodes[v].kind = "error_position"}

NearestErrors(start) ==
    {v \in ErrorNodesReached(start) :
        \A w \in ErrorNodesReached(start) : Distance(start, v) <= Distance(start, w)}

\* the order of two ids of one function as strings: "error" sorts before "null", and
\* one-digit lines sort as numbers
IdBefore(a, b) ==
    \/ a[2] = "error" /\ b[2] = "null"
    \/ a[2] = b[2] /\ a[3] < b[3]

\* lowest line number first, then the smaller id
Preferred(v, w) ==
    \/ graph.nodes[v].location[2] < graph.nodes[w].location[2]
    \/ graph.nodes[v].location[2] = graph.nodes[w].location[2] /\ IdBefore(v, w)

\* C6: select_fix_position_policy on a null_position node returns the error_position
\* node at the least positive shortest-path distance and, among several at that
\* distance, the one with the lowest line number, then the smallest id; it returns
\* None when no error node is reached.
C6_SelectsNearestLowestLine ==
    (/\ lastCall.op = "select_fix_position_policy"
     /\ lastCall.null_node_id \in DOMAIN graph.nodes
     /\ graph.nodes[lastCall.null_node_id].kind = "null_position")
    => /\ result.status = "ok"
       /\ result.value \in
            IF NearestErrors(lastCall.null_node_id) = {} THEN {<<>>}
            ELSE {<<v>> : v \in {x \in NearestErrors(lastCall.null_node_id) :
                       \A w \in NearestErrors(lastCall.null_node_id) \ {x} : Preferred(x, w)}}

C8_SuccessorsMirrorEdgeIndex ==
    \A n \in DOMAIN graph.nodes : graph.nodes[n].successors = EdgesGet(graph, n)

\* the pairs of the edge index from a null_position node to an error_position node
NullErrorEdges ==
    {e \in (DOMAIN graph.edges) \X (DOMAIN graph.nodes) :
        /\ e[2] \in graph.edges[e[1]]
        /\ e[1] \in DOMAIN graph.nodes
        /\ graph.nodes[e[1]].kind = "null_position"
        /\ graph.nodes[e[2]].kind = "error_position"}

\* C9: in every graph state get_fix_candidates returns, and what it returns are
\* exactly the pairs (u, v) of the edge index with u a null_position node and v an
\* error_position node.
C9_FixCandidatesAreNullErrorEdges ==
    lastCall.op = "get_fix_candidates" =>
        result.status = "ok" /\ result.value = NullErrorEdges

\* C10: for an id that is no node, compute_shortest_paths returns an empty mapping and
\* select_fix_position_policy returns None; neither raises.
C10_UnknownIdYieldsEmpty ==
    /\ (lastCall.op = "compute_shortest_paths" /\ lastCall.start_node \notin DOMAIN graph.nodes)
          => (result.status = "ok" /\ result.value = <<>>)
    /\ (lastCall.op = "select_fix_position_policy"
           /\ lastCall.null_node_id \notin DOMAIN graph.nodes)
          => (result.status = "ok" /\ result.value = <<>>)

(***************************************************************************)
(* Text. A spelling or a variable name is the sequence of its characters;  *)
(* a formatted line is the sequence of the parts of its f-string. Function *)
(* names, which the code only compares and looks up, are numbers.          *)
(***************************************************************************)
\* `sub in s`
Contains(s, sub) ==
    \E i \in 1..(Len(s) - Len(sub) + 1) : SubSeq(s, i, i + Len(sub) - 1) = sub

RECURSIVE Replace(_, _, _)
\* s.replace(old, new) for a non-empty old: the occurrences from the left, not overlapping
Replace(s, old, new) ==
    IF Len(s) < Len(old) THEN s
    ELSE IF SubSeq(s, 1, Len(old)) = old
         THEN new \o Replace(SubSeq(s, Len(old) + 1, Len(s)), old, new)
         ELSE <<Head(s)>> \o Replace(Tail(s), old, new)

RECURSIVE LStrip(_)
LStrip(s) == IF s # <<>> /\ Head(s) = " " THEN LStrip(Tail(s)) ELSE s

RECURSIVE RStrip(_)
RStrip(s) == IF s # <<>> /\ s[Len(s)] = " " THEN RStrip(SubSeq(s, 1, Len(s) - 1)) ELSE s

\* s.strip()
Strip(s) == RStrip(LStrip(s))

\* the upper-case letters of the names of the model
LowerChar(c) == IF c = "P" THEN "p" ELSE IF c = "N" THEN "n" ELSE IF c = "U" THEN "u"
                ELSE IF c = "L" THEN "l" ELSE c

\* s.lower()
Lower(s) == [i \in DOMAIN s |-> LowerChar(s[i])]

\* s.startswith(prefix), s.endswith(suffix)
StartsWith(s, prefix) == Len(s) >= Len(prefix) /\ SubSeq(s, 1, Len(prefix)) = prefix
EndsWith(s, suffix) ==
    Len(s) >= Len(suffix) /\ SubSeq(s, Len(s) - Len(suffix) + 1, Len(s)) = suffix

(***************************************************************************)
(* The functions given to the detectors and the synthesizers: a            *)
(* FunctionDecl whose body, when it has one, walks as a root and up to     *)
(* MaxBodyNodes statements and expressions.                                *)
(***************************************************************************)
\* The names of the resource functions. Function names are numbers throughout: those
\* of the function table are 1..NumFuncs, a resource function is 100 plus its place here.
ResourceNames ==
    <<"malloc", "calloc", "realloc", "new", "pthread_mutex_lock", "spin_lock", "read_lock",
      "free", "delete", "pthread_mutex_unlock", "spin_unlock", "read_unlock">>

Fn(text) == 100 + CHOOSE i \in DOMAIN ResourceNames : ResourceNames[i] = text

SynthLines == 1..2

SynthFile == "a.c"

\* spellings of expressions
PArrowX == <<"p", "-", ">", "x">>
StarQ == <<"*", "q">>
NotQ == <<"!", "q">>
PIsNull == <<"p", " ", "=", "=", " ", "N", "U", "L", "L">>

\* names of variables
BufPtr == <<"b", "u", "f", "P", "t", "r">>
IsReady == <<"i", "s", "_", "r", "e", "a", "d", "y">>
Count == <<"c", "o", "u", "n", "t">>

\* (kind, spelling) of the nodes of a body
NodeShapes ==
    {<<"MemberRefExpr", PArrowX>>, <<"UnaryOperator", StarQ>>, <<"UnaryOperator", NotQ>>,
     <<"ReturnStmt", <<>>>>, <<"IfStmt", PIsNull>>,
     <<"CallExpr", Fn("malloc")>>, <<"CallExpr", Fn("free")>>,
     <<"CallExpr", Fn("spin_unlock")>>,
     <<"VarDecl", Count>>, <<"DeclRefExpr", Count>>, <<"DeclRefExpr", IsReady>>}

BodyNodes ==
    {ASTNode(sh[1], sh[2], <<SynthFile, l>>) : sh \in NodeShapes, l \in SynthLines}

\* the walks of the bodies: the root, then the nodes below it
BodyWalks ==
    UNION {{<<ASTNode("CompoundStmt", <<>>, <<SynthFile, 1>>)>> \o w : w \in [1..n -> BodyNodes]}
           : n \in 0..MaxBodyNodes}

ParameterLists == {<<>>, <<BufPtr, IsReady, Count>>}

\* the FunctionDecls: with a body, and the one without
SynthDecls ==
    {[name |-> 1, location |-> <<SynthFile, 1>>, return_type |-> rt,
      parameters |-> ps, body |-> b, callees |-> {}]
        : rt \in Range(ReturnTypes), ps \in ParameterLists,
          b \in {<<w>> : w \in BodyWalks} \cup {<<>>}}

\* the lines of the file of the function
SourceLinesOf(file) == [l \in SynthLines |-> <<"line ", l, " of ", file>>]

(***************************************************************************)
(* The detectors (src/analysis/npd_detector.py).                           *)
(***************************************************************************)
\* `not function_decl.body`
NoBody(fd) == fd.body = <<>>

IsDeref(node) ==
    /\ node.kind \in {"UnaryOperator", "MemberRefExpr", "ArraySubscriptExpr"}
    /\ Contains(node.spelling, <<"*">>) \/ Contains(node.spelling, <<"-", ">">>)

RECURSIVE DerefsOf(_)
DerefsOf(walk) ==
    IF walk = <<>> THEN <<>>
    ELSE (IF IsDeref(Head(walk)) THEN << <<Head(walk).spelling, Head(walk).location[2]>> >>
          ELSE <<>>) \o DerefsOf(Tail(walk))

find_null_dereferences(fd) == IF NoBody(fd) THEN <<>> ELSE DerefsOf(fd.body[1])

IsErrorHandling(node) ==
    \/ /\ node.kind = "IfStmt"
       /\ \/ Contains(node.spelling, <<"N", "U", "L", "L">>)
          \/ Contains(Lower(node.spelling), <<"n", "u", "l", "l">>)
    \/ node.kind \in {"ReturnStmt", "GotoStmt"}

find_error_positions(fd) ==
    IF NoBody(fd) THEN <<>>
    ELSE SortedSeq({fd.body[1][i].location[2] :
                       i \in {j \in DOMAIN fd.body[1] : IsErrorHandling(fd.body[1][j])}})

(***************************************************************************)
(* ResourcePairs (src/analysis/resource_pairs.py).                         *)
(***************************************************************************)
ResourcePair(acquire, release) == [acquire |-> acquire, release |-> release]

\* self.pairs
Pairs ==
    << ResourcePair(Fn("malloc"), Fn("free")),
       ResourcePair(Fn("calloc"), Fn("free")),
       ResourcePair(Fn("realloc"), Fn("free")),
       ResourcePair(Fn("new"), Fn("delete")),
       ResourcePair(Fn("pthread_mutex_lock"), Fn("pthread_mutex_unlock")),
       ResourcePair(Fn("spin_lock"), Fn("spin_unlock")),
       ResourcePair(Fn("read_lock"), Fn("read_unlock")) >>

\* {key: value for ...}: a later item replaces an earlier one with the same key
DictOf(items) ==
    [k \in {items[i][1] : i \in DOMAIN items} |->
        items[CHOOSE i \in DOMAIN items :
                 items[i][1] = k /\ \A j \in DOMAIN items : items[j][1] = k => j <= i][2]]

acquire_to_release == DictOf([i \in DOMAIN Pairs |-> <<Pairs[i].acquire, Pairs[i].release>>])
release_to_acquire == DictOf([i \in DOMAIN Pairs |-> <<Pairs[i].release, Pairs[i].acquire>>])

\* dict.get(key): None is <<>>
get_release(acquire_func) ==
    IF acquire_func \in DOMAIN acquire_to_release THEN <<acquire_to_release[acquire_func]>>
    ELSE <<>>
get_acquire(release_func) ==
    IF release_func \in DOMAIN release_to_acquire THEN <<release_to_acquire[release_func]>>
    ELSE <<>>

RECURSIVE CallsIn(_, _)
\* the (callee, line) of the CallExpr nodes of a walk whose callee is a key of table
CallsIn(walk, table) ==
    IF walk = <<>> THEN <<>>
    ELSE (IF Head(walk).kind = "CallExpr" /\ Head(walk).spelling \in DOMAIN table
          THEN << <<Head(walk).spelling, Head(walk).location[2]>> >>
          ELSE <<>>) \o CallsIn(Tail(walk), table)

\* a release on the line of the acquire counts as a later release
ReleasedOnOrAfter(release_calls, release_func, line) ==
    \E i \in DOMAIN release_calls :
        <<release_calls[i][1]>> = release_func /\ release_calls[i][2] >= line

\* the inner loop: `rel == release_func and rel_line > line` for some release call
ReleasedLater(release_calls, release_func, line) ==
    \E i \in DOMAIN release_calls :
        <<release_calls[i][1]>> = release_func /\ release_calls[i][2] > line

RECURSIVE MissingOf(_, _)
MissingOf(acquire_calls, release_calls) ==
    IF acquire_calls = <<>> THEN <<>>
    ELSE (IF ReleasedLater(release_calls, get_release(Head(acquire_calls)[1]),
                           Head(acquire_calls)[2])
          THEN <<>> ELSE <<Head(acquire_calls)>>)
         \o MissingOf(Tail(acquire_calls), release_calls)

find_missing_releases(fd) ==
    IF NoBody(fd) THEN <<>>
    ELSE MissingOf(CallsIn(fd.body[1], acquire_to_release),
                   CallsIn(fd.body[1], release_to_acquire))

(***************************************************************************)
(* PatchGenerator (src/patch/patch_generator.py).                          *)
(***************************************************************************)
Patch(file_path, line_number, original_line, new_lines) ==
    [file_path |-> file_path, line_number |-> line_number,
     original_line |-> original_line, new_lines |-> new_lines]

\* the first error line after line, else line itself
ErrorLineFor(errs, line) ==
    LET later == {i \in DOMAIN errs : errs[i] > line}
    IN  IF later = {} THEN line ELSE errs[Min(later)]

\* deref.replace('*', '').replace('->', '.').strip()
PointerName(deref) == Strip(Replace(Replace(deref, <<"*">>, <<>>), <<"-", ">">>, <<".">>))

RECURSIVE Retrogression(_, _, _)
\* one release call per missing acquisition before the dereference
Retrogression(missing_resources, line, pointer_name) ==
    IF missing_resources = <<>> THEN <<>>
    ELSE (IF Head(missing_resources)[2] < line
             /\ get_release(Head(missing_resources)[1]) # <<>>
          THEN << <<"    ", get_release(Head(missing_resources)[1])[1],
                    "(", pointer_name, ");">> >>
          ELSE <<>>) \o Retrogression(Tail(missing_resources), line, pointer_name)

\* new_code for one dereference
NewCode(fd, deref, line, missing_resources) ==
    << <<"if (", PointerName(deref), " == NULL) {">> >>
        \o Retrogression(missing_resources, line, PointerName(deref))
        \o <<ReturnLine(fd), "}">>

\* source_lines[line - 1] if it exists, else ""
OriginalLine(lines, line) ==
    IF 0 <= line - 1 /\ line - 1 < Len(lines) THEN lines[line] ELSE ""

\* a generator that anchors the patch at the error line it has chosen
AnchorAtErrorLine(line, error_line) == error_line

\* line_number=line: the error line chosen for the dereference is not used
AnchorLine(line, error_line) == line

RECURSIVE PatchesFor(_, _, _, _, _)
\* the loop over derefs
PatchesFor(fd, lines, derefs, errs, missing_resources) ==
    IF derefs = <<>> THEN <<>>
    ELSE LET deref == Head(derefs)[1]
             line  == Head(derefs)[2]
             at    == AnchorLine(line, ErrorLineFor(errs, line))
         IN  <<Patch(fd.location[1], at, OriginalLine(lines, line),
                     NewCode(fd, deref, line, missing_resources))>>
                 \o PatchesFor(fd, lines, Tail(derefs), errs, missing_resources)

generate_patches(fd, lines) ==
    PatchesFor(fd, lines, find_null_dereferences(fd), find_error_positions(fd),
               find_missing_releases(fd))

(***************************************************************************)
(* VariableResetter (src/patch/variable_reset.py).                         *)
(***************************************************************************)
ResetPatch(file_path, line_number, reset_lines) ==
    [file_path |-> file_path, line_number |-> line_number, reset_lines |-> reset_lines]

\* the spellings of the nodes of a kind
SpellingsOf(walk, kind) == {walk[i].spelling : i \in {j \in DOMAIN walk : walk[j].kind = kind}}

\* _find_globals_and_args: the set behind global_vars, and arg_vars
GlobalsOf(fd) ==
    {name \in SpellingsOf(fd.body[1], "DeclRefExpr") :
        name \notin SpellingsOf(fd.body[1], "VarDecl") /\ name \notin Range(fd.parameters)}

\* always zero
ZeroValue(var_name) == "0"

_determine_default_value(var_name) ==
    IF Contains(var_name, <<"*">>) \/ EndsWith(Lower(var_name), <<"p", "t", "r">>) THEN "NULL"
    ELSE IF \/ StartsWith(Lower(var_name), <<"i", "s", "_">>)
            \/ StartsWith(Lower(var_name), <<"h", "a", "s", "_">>) THEN "false"
    ELSE "0"

\* the reset statements of the names of a list under the naive and the typed policy
NaiveResets(names) == [i \in DOMAIN names |-> <<"    ", names[i], " = ", ZeroValue(names[i]), ";">>]
TypedResets(names) ==
    [i \in DOMAIN names |-> <<"    ", names[i], " = ", _determine_default_value(names[i]), ";">>]

\* The lists that generate_reset_patches can return: list(set(global_vars)) has the
\* order in which the set of names happens to iterate.
generate_reset_patches(fd, lines) ==
    LET errs == find_error_positions(fd)
    IN  IF errs = <<>> THEN {<<>>}
        ELSE {[i \in DOMAIN errs |->
                  ResetPatch(fd.location[1], errs[i],
                             NaiveResets(fd.parameters) \o NaiveResets(globals_vars))]
              : globals_vars \in Orders(GlobalsOf(fd))}

generate_reset_patches_with_types(fd, lines) ==
    LET errs == find_error_positions(fd)
    IN  IF errs = <<>> THEN {<<>>}
        ELSE {[i \in DOMAIN errs |->
                  ResetPatch(fd.location[1], errs[i],
                             TypedResets(fd.parameters) \o TypedResets(globals_vars))]
              : globals_vars \in Orders(GlobalsOf(fd))}

(***************************************************************************)
(* One call of a detector or a synthesizer on one function.                *)
(***************************************************************************)
InitSynth ==
    /\ CallChainIdle /\ ContextGraphIdle /\ MainIdle /\ MergeIdle /\ TableIdle
    /\ function_decl \in SynthDecls
    /\ source_lines = SourceLinesOf(function_decl.location[1])
    /\ synCall = NoCall /\ synResult = NoResult

SynthCall(op, value) ==
    /\ function_decl # <<>>
    /\ synCall' = [op |-> op]
    /\ synResult' = Returned(value)
    /\ UNCHANGED <<function_decl, source_lines, ccVars, cgVars, mainVars, mergeVars, tabVars>>

FindNullDereferences == SynthCall("find_null_dereferences", find_null_dereferences(function_decl))

FindErrorPositions == SynthCall("find_error_positions", find_error_positions(function_decl))

FindMissingReleases == SynthCall("find_missing_releases", find_missing_releases(function_decl))

GeneratePatches == SynthCall("generate_patches", generate_patches(function_decl, source_lines))

GenerateResetPatches ==
    \E value \in generate_reset_patches(function_decl, source_lines) :
        SynthCall("generate_reset_patches", value)

GenerateResetPatchesWithTypes ==
    \E value \in generate_reset_patches_with_types(function_decl, source_lines) :
        SynthCall("generate_reset_patches_with_types", value)

NextSynth ==
    \/ FindNullDereferences
    \/ FindErrorPositions
    \/ FindMissingReleases
    \/ GeneratePatches
    \/ GenerateResetPatches
    \/ GenerateResetPatchesWithTypes

SpecSynth == InitSynth /\ [][NextSynth]_vars

(***************************************************************************)
(* Lookups in the default ResourcePairs table.                             *)
(***************************************************************************)
\* the names looked up: every name of the table and the names of the function table
TableNames == {Fn(ResourceNames[i]) : i \in DOMAIN ResourceNames} \cup FuncNames

InitTable ==
    /\ CallChainIdle /\ ContextGraphIdle /\ SynthIdle /\ MainIdle /\ MergeIdle
    /\ tabAcquire \in TableNames /\ tabRelease \in TableNames
    /\ tabCall = NoCall /\ tabResult = NoResult

\* a lookup with an argument that is a name <<n>> or None <<>>
TableCall(op, arg, value) ==
    /\ tabAcquire # 0
    /\ tabCall' = [op |-> op, arg |-> arg]
    /\ tabResult' = Returned(value)
    /\ UNCHANGED <<tabAcquire, tabRelease, ccVars, cgVars, synVars, mainVars, mergeVars>>

\* get_release(acquire_func)
GetRelease == TableCall("get_release", <<tabAcquire>>, get_release(tabAcquire))

\* get_acquire(release_func)
GetAcquire == TableCall("get_acquire", <<tabRelease>>, get_acquire(tabRelease))

\* get_acquire(get_release(acquire_func)): the lookup of what get_release has returned;
\* None is no key of the dict
GetAcquireOfRelease ==
    /\ tabCall.op = "get_release"
    /\ TableCall("get_acquire", tabResult.value,
                 IF tabResult.value = <<>> THEN <<>> ELSE get_acquire(tabResult.value[1]))

NextTable ==
    \/ GetRelease
    \/ GetAcquire
    \/ GetAcquireOfRelease

SpecTable == InitTable /\ [][NextTable]_vars

(***************************************************************************)
(* Properties of the table lookups.                                        *)
(***************************************************************************)
\* C22: the two lookups of the default table round-trip: for every pair (a, r) of the
\* table, get_release(a) returns r, and get_acquire of what get_release(a) returned
\* returns a.
C22_LookupsRoundTrip ==
    \A i \in DOMAIN Pairs :
        Pairs[i].acquire = tabAcquire =>
            /\ (tabCall.op = "get_release" /\ tabCall.arg = <<tabAcquire>>) =>
                    tabResult.value = <<Pairs[i].release>>
            /\ (tabCall.op = "get_acquire" /\ tabCall.arg = get_release(tabAcquire)) =>
                    tabResult.value = <<tabAcquire>>

(***************************************************************************)
(* Properties of the detectors and the synthesizers.                       *)
(***************************************************************************)
\* the walk of the body of the function, empty when it has none
WalkOf(fd) == IF NoBody(fd) THEN <<>> ELSE fd.body[1]

\* the part of s before the first "->", all of s when there is none
BeforeArrow(s) ==
    LET arrows == {i \in 1..(Len(s) - 1) : SubSeq(s, i, i + 1) = <<"-", ">">>}
    IN  IF arrows = {} THEN s ELSE SubSeq(s, 1, Min(arrows) - 1)

\* the pointer that a spelling dereferences: p for p->x, q for *q
GuardedPointer(spelling) == Strip(BeforeArrow(Replace(spelling, <<"*">>, <<>>)))

\* C11: the first inserted line of every LocalPatch is the null check on the pointer of
\* its dereference signal, the spelling with `*` and `->` stripped: the check on p for
\* a signal spelled p->x.
C11_GuardTestsStrippedPointer ==
    synCall.op = "generate_patches" =>
        \A i \in DOMAIN synResult.value :
            synResult.value[i].new_lines[1]
                = <<"if (", GuardedPointer(find_null_dereferences(function_decl)[i][1]),
                    " == NULL) {">>

\* C12: generate_patches returns one LocalPatch per dereference signal, in the order of
\* the signals, each at the line of its signal and with the source line of that line,
\* whether or not an error line after it exists.
C12_OnePatchPerSignalAtItsLine ==
    synCall.op = "generate_patches" =>
        LET derefs == find_null_dereferences(function_decl)
        IN  /\ Len(synResult.value) = Len(derefs)
            /\ \A i \in DOMAIN derefs :
                  /\ synResult.value[i].line_number = derefs[i][2]
                  /\ synResult.value[i].original_line = source_lines[derefs[i][2]]
                  /\ synResult.value[i].file_path = function_decl.location[1]

\* C12 witness: generate_patches has returned a patch at the line of a dereference
\* signal that has an error line after it.
C12_PatchedAtSignalBeforeError ==
    /\ synCall.op = "generate_patches"
    /\ \E i \in DOMAIN synResult.value :
          /\ synResult.value[i].line_number = find_null_dereferences(function_decl)[i][2]
          /\ \E e \in Range(find_error_positions(function_decl)) :
                e > synResult.value[i].line_number

\* the release function that the table pairs with an acquire function
PairedReleases(callee) == {Pairs[i].release : i \in {j \in DOMAIN Pairs : Pairs[j].acquire = callee}}

\* the calls of a walk to an acquire function that no later line releases
UnreleasedAcquires(walk) ==
    LET Unreleased(node) ==
            /\ node.kind = "CallExpr"
            /\ PairedReleases(node.spelling) # {}
            /\ ~ \E k \in DOMAIN walk :
                    /\ walk[k].kind = "CallExpr"
                    /\ walk[k].spelling \in PairedReleases(node.spelling)
                    /\ walk[k].location[2] > node.location[2]
        calls == SelectSeq(walk, Unreleased)
    IN  [i \in DOMAIN calls |-> <<calls[i].spelling, calls[i].location[2]>>]

\* C13: find_missing_releases reports (a, A) exactly for the calls of an acquire
\* function a on a line A that no call of the paired release function follows on a line
\* greater than A; a reported name is never a release function.
C13_MissingAreUnreleasedAcquires ==
    synCall.op = "find_missing_releases" =>
        /\ synResult.value = UnreleasedAcquires(WalkOf(function_decl))
        /\ \A i \in DOMAIN synResult.value :
              \A j \in DOMAIN Pairs : synResult.value[i][1] # Pairs[j].release

\* C13 witness: find_missing_releases has reported an acquire call although the body
\* calls the paired release function, on the same line or before it.
C13_ReportedDespiteEarlierRelease ==
    /\ synCall.op = "find_missing_releases"
    /\ synResult.value # <<>>
    /\ \E k \in DOMAIN WalkOf(function_decl) :
          /\ WalkOf(function_decl)[k].kind = "CallExpr"
          /\ WalkOf(function_decl)[k].spelling \in PairedReleases(synResult.value[1][1])
          /\ WalkOf(function_decl)[k].location[2] = synResult.value[1][2]

(***************************************************************************)
(* main (src/main.py): the loop over the function table that builds the    *)
(* context graph and collects the local and the reset patches, then the    *)
(* loop that runs assess_and_patch for the functions with dereferences.    *)
(***************************************************************************)
MainNames == 1..MaxMainFuncs

\* the file that load_source_files has loaded, and a header that a loaded file
\* includes from outside the loaded path
LoadedFile == FileOf(1)
HeaderFile == "inc.h"

\* the lines of the dereference and of the return statement of a function
DerefLineOf(name) == 10 * name + 5
ErrorLineOf(name) == 10 * name + 6

\* A FunctionDecl as parse returns it: the calls of its callees, then a dereference
\* and a return statement when it has them, all located in its file.
MainDecl(name, callees, file, hasDeref, hasError) ==
    LET w == Walk(name, callees)
    IN  [name        |-> name,
         location    |-> <<file, DeclLine(name)>>,
         return_type |-> ReturnTypes[(name % 3) + 1],
         parameters  |-> <<BufPtr, IsReady, Count>>,
         body        |-> << [i \in DOMAIN w |->
                                [w[i] EXCEPT !.location = <<file, w[i].location[2]>>]]
                            \o (IF hasDeref
                                THEN <<ASTNode("MemberRefExpr", PArrowX,
                                               <<file, DerefLineOf(name)>>)>>
                                ELSE <<>>)
                            \o (IF hasError
                                THEN <<ASTNode("ReturnStmt", <<>>, <<file, ErrorLineOf(name)>>)>>
                                ELSE <<>>) >>,
         callees     |-> callees]

MainSourceLines(file) == [l \in 1..(10 * MaxMainFuncs + 9) |-> <<"line ", l, " of ", file>>]

\* CParser.build_cfg: each line of the body leads to the next greater one
build_cfg(fd) ==
    IF NoBody(fd) THEN <<>>
    ELSE LET sorted_lines == SortedSeq({fd.body[1][i].location[2] : i \in DOMAIN fd.body[1]})
         IN  [l \in {sorted_lines[i] : i \in 1..(Len(sorted_lines) - 1)} |->
                 <<sorted_lines[(CHOOSE i \in DOMAIN sorted_lines : sorted_lines[i] = l) + 1]>>]

RECURSIVE BfsRun(_, _, _, _, _, _, _)
\* `while queue` to its end
BfsRun(g, func_name, null_line, errs, c, q, seen) ==
    IF q = <<>> THEN g
    ELSE LET it == BfsIteration(g, func_name, null_line, errs, c, q, seen)
         IN  BfsRun(it.graph, func_name, null_line, errs, c, it.queue, it.visited)

RECURSIVE EdgeLoop(_, _, _, _, _)
\* the third loop of build_from_function
EdgeLoop(g, func_name, derefs, errs, c) ==
    IF derefs = <<>> THEN g
    ELSE EdgeLoop(BfsRun(g, func_name, Head(derefs)[2], errs, c, <<Head(derefs)[2]>>, {}),
                  func_name, Tail(derefs), errs, c)

\* one whole call of build_from_function on graph g
build_from_function(g, func_name, derefs, errs, c) ==
    EdgeLoop(AddErrorNodes(AddNullNodes(g, func_name, derefs), func_name, errs),
             func_name, derefs, errs, c)

\* every function is sent up the call chain
AnyFunction(fd) == TRUE

\* `if find_null_dereferences(fdecl)`
HasDerefs(fd) == find_null_dereferences(fd) # <<>>

\* The state of main when the function table and the call graph are built: every name
\* of the table has a FunctionDecl with a body; at most one of them is declared in the
\* header, which is no key of source_map.
InitMain ==
    /\ ContextGraphIdle /\ SynthIdle /\ MergeIdle /\ TableIdle
    /\ \E g \in [MainNames -> SUBSET MainNames] :
       \E derefs \in SUBSET MainNames : \E errors \in SUBSET MainNames :
       \E header \in NoneOrOne(MainNames) :
          /\ Cardinality({e \in MainNames \X MainNames : e[2] \in g[e[1]]}) <= MaxCallEdges
          /\ functions = [n \in MainNames |->
                MainDecl(n, g[n], IF n \in header THEN HeaderFile ELSE LoadedFile,
                         n \in derefs, n \in errors)]
          /\ call_graph = [n \in FuncNames |-> IF n \in MainNames THEN g[n] ELSE {}]
    /\ source_map = [f \in {LoadedFile} |-> MainSourceLines(f)]
    /\ buggy_function = <<>> /\ visited = {} /\ patches = <<>> /\ stack = <<>>
    /\ ccPc = "idle" /\ patchLog = <<>>
    /\ all_patches = <<>> /\ all_reset_patches = <<>> /\ all_chain_patches = <<>>
    /\ mainPc = "functions" /\ funcIdx = 1

\* One iteration of `for func_name, fdecl in functions.items()` of the first loop.
\* source_map[fdecl.location[0]] raises KeyError for a file that was not loaded, after
\* the context graph of the function is built; nothing in main catches it.
MainFunction ==
    /\ mainPc = "functions"
    /\ LET func_name == CallGraphKeys[funcIdx]
           fdecl     == functions[func_name]
           derefs    == find_null_dereferences(fdecl)
           errors    == find_error_positions(fdecl)
       IN  /\ graph' = build_from_function(graph, func_name, derefs, errors, build_cfg(fdecl))
           /\ IF fdecl.location[1] \notin DOMAIN source_map
              THEN /\ mainPc' = "raised"
                   /\ UNCHANGED <<all_patches, all_reset_patches, funcIdx>>
              ELSE /\ all_patches' = all_patches
                          \o generate_patches(fdecl, source_map[fdecl.location[1]])
                   /\ \E reset_patches \in
                            generate_reset_patches(fdecl, source_map[fdecl.location[1]]) :
                         all_reset_patches' = all_reset_patches \o reset_patches
                   /\ IF funcIdx < Cardinality(DOMAIN functions)
                      THEN funcIdx' = funcIdx + 1 /\ mainPc' = mainPc
                      ELSE funcIdx' = 1 /\ mainPc' = "chain"
    /\ UNCHANGED <<source_map, all_chain_patches, lastCall, result, buildVars, ccVars, synVars, mergeVars, tabVars>>

\* One iteration of the second loop up to the call of assess_and_patch: the call is
\* made for a function with dereferences, the others are passed over.
MainChain ==
    /\ mainPc = "chain" /\ funcIdx <= Cardinality(DOMAIN functions)
    /\ LET fdecl == functions[CallGraphKeys[funcIdx]]
       IN  IF HasDerefs(fdecl)
           THEN /\ buggy_function' = fdecl
                /\ visited' = {} /\ patches' = <<>> /\ stack' = <<>> /\ patchLog' = <<>>
                /\ ccPc' = "start"
                /\ mainPc' = "assess"
                /\ UNCHANGED funcIdx
           ELSE /\ funcIdx' = funcIdx + 1
                /\ UNCHANGED <<buggy_function, visited, patches, stack, patchLog, ccPc, mainPc>>
    /\ UNCHANGED <<call_graph, functions, source_map, all_patches, all_reset_patches,
                   all_chain_patches, cgVars, synVars, mergeVars, tabVars>>

\* assess_and_patch has returned: all_chain_patches.extend(chain_patches)
MainCollect ==
    /\ mainPc = "assess" /\ ccPc = "done"
    /\ all_chain_patches' = all_chain_patches \o patches
    /\ buggy_function' = <<>>
    /\ visited' = {} /\ patches' = <<>> /\ stack' = <<>> /\ patchLog' = <<>>
    /\ ccPc' = "idle"
    /\ mainPc' = "chain"
    /\ funcIdx' = funcIdx + 1
    /\ UNCHANGED <<call_graph, functions, source_map, all_patches, all_reset_patches,
                   cgVars, synVars, mergeVars, tabVars>>

\* the second loop is exhausted: main goes on to apply or to preview the patches
MainDone ==
    /\ mainPc = "chain" /\ funcIdx > Cardinality(DOMAIN functions)
    /\ mainPc' = "done"
    /\ UNCHANGED <<source_map, all_patches, all_reset_patches, all_chain_patches, funcIdx,
                   ccVars, cgVars, synVars, mergeVars, tabVars>>

NextMain ==
    \/ MainFunction
    \/ MainChain
    \/ AssessStart
    \/ RecurseEnter
    \/ RecurseCaller
    \/ RecurseReturn
    \/ AssessReturn
    \/ MainCollect
    \/ MainDone

SpecMain == InitMain /\ [][NextMain]_vars

(***************************************************************************)
(* Properties of main and of the operations on degraded functions.         *)
(***************************************************************************)
\* C14: the reset patches that main collects follow the typed policy: bufPtr is reset
\* to NULL, is_ready to false and count to 0.
C14_DefaultResetIsTyped ==
    \A i \in DOMAIN all_reset_patches :
        \A k \in DOMAIN all_reset_patches[i].reset_lines :
            LET reset == all_reset_patches[i].reset_lines[k]
            IN  /\ reset[2] = BufPtr => reset[4] = "NULL"
                /\ reset[2] = IsReady => reset[4] = "false"
                /\ reset[2] = Count => reset[4] = "0"

\* C15: for a FunctionDecl without a body the detectors and the synthesizers return
\* empty results, and assess_and_patch does not raise when such a function is a caller
\* listed in the call graph.
C15_BodilessFunctionYieldsEmpty ==
    /\ \A n \in FuncNames :
          LET fd == FunctionDecl(n, {}, FALSE)
          IN  /\ find_null_dereferences(fd) = <<>>
              /\ find_error_positions(fd) = <<>>
              /\ find_missing_releases(fd) = <<>>
              /\ generate_patches(fd, <<>>) = <<>>
              /\ generate_reset_patches(fd, <<>>) = {<<>>}
    /\ ccPc # "raised"

\* the lines of function n
LinesOfFunction(n) == DeclLine(n)..(DeclLine(n) + 9)

\* the places in a list of patches of the patches anchored in function n
PatchesIn(list, n) ==
    {i \in DOMAIN list : /\ list[i].file_path = functions[n].location[1]
                         /\ list[i].line_number \in LinesOfFunction(n)}

\* the places in all_chain_patches of the patches that guard calls of function n
ChainPatchesFor(n) ==
    {i \in DOMAIN all_chain_patches : all_chain_patches[i].new_lines[1][2] = n}

NoDerefs(n) == find_null_dereferences(functions[n]) = <<>>
NoErrors(n) == find_error_positions(functions[n]) = <<>>

\* C16 as stated: a function without dereference signals or without error-handling
\* lines gets no local patch, no reset patch and no call-chain patch.
C16_NoSignalsNoEdits ==
    mainPc # "idle" =>
        \A n \in DOMAIN functions :
            (NoDerefs(n) \/ NoErrors(n)) =>
                /\ PatchesIn(all_patches, n) = {}
                /\ PatchesIn(all_reset_patches, n) = {}
                /\ ChainPatchesFor(n) = {}

\* C16 as amended: a function without dereference signals gets no local patch and no
\* call-chain patch, and a function without error-handling lines gets no reset patch.
C16_NoDerefsNoGuardNoErrorsNoReset ==
    mainPc # "idle" =>
        \A n \in DOMAIN functions :
            /\ NoDerefs(n) => PatchesIn(all_patches, n) = {} /\ ChainPatchesFor(n) = {}
            /\ NoErrors(n) => PatchesIn(all_reset_patches, n) = {}

\* C16 witness: main is through both loops with a function that has no dereference but
\* is called and has an error line, and one that has a dereference and no error line.
C16_DoneWithPartialSignals ==
    /\ mainPc = "done"
    /\ \E n, m \in DOMAIN functions :
          /\ NoDerefs(n) /\ ~NoErrors(n) /\ n \in call_graph[m]
          /\ PatchesIn(all_reset_patches, n) # {}
    /\ \E n \in DOMAIN functions :
          /\ NoErrors(n) /\ ~NoDerefs(n)
          /\ PatchesIn(all_patches, n) # {}

\* C17: no fault leaves main: whatever the function table, with a function declared in
\* a file that is no key of source_map, both loops run to their end.
C17_NoFaultLeavesPipeline == mainPc # "raised"

(***************************************************************************)
(* The patch merger: PatchApplier.apply_patches, called by main under      *)
(* --apply. It merges the edit records of each file into the file's lines: *)
(* edits grouped by anchor line, within a group local, then reset, then    *)
(* call-chain in detection order, byte-identical insertions of a group     *)
(* kept once, groups applied from the highest anchor to the lowest.        *)
(***************************************************************************)
\* the lines of the file as loaded
FileLines(n) == [l \in 1..n |-> <<"line ", l>>]

\* the text that each synthesizer inserts, every line as the parts of its f-string
LocalText == << <<"if (", "p.x", " == NULL) {">>, <<"    return -1;">>, <<"}">> >>
ResetText == << <<"    ", "count", " = ", "0", ";">> >>
ChainText ==
    << <<"auto ret_val = ", "f", "();">>, <<"if (ret_val == NULL) {">>, <<"    return -1;">>,
       <<"}">> >>

\* the lists of up to MaxEdits records that make(line) builds for the lines 1..n
EditLists(n, make(_)) ==
    UNION {{[i \in 1..k |-> make(at[i])] : at \in [1..k -> 1..n]} : k \in 0..MaxEdits}

\* the lines that an edit record inserts: new_lines, and reset_lines for a ResetPatch
InsertedLines(edit) ==
    IF "reset_lines" \in DOMAIN edit THEN edit.reset_lines ELSE edit.new_lines

\* apply_patches(source_map, all_patches, all_reset_patches, all_chain_patches)
ApplyArguments(sources, local, reset, chain) ==
    [source_map |-> sources, local |-> local, reset |-> reset, chain |-> chain]

\* the edits of a list for one file and one anchor line, in list order
EditsAt(list, file, line) ==
    SelectSeq(list, LAMBDA e : e.file_path = file /\ e.line_number = line)

RECURSIVE KeepRepetitions(_, _)
\* the insertions of a group, repetitions and all
KeepRepetitions(group, seen) ==
    IF group = <<>> THEN <<>>
    ELSE <<InsertedLines(Head(group))>> \o KeepRepetitions(Tail(group), seen)

RECURSIVE Deduplicate(_, _)
\* the insertions of a group with every byte-identical repetition left out
Deduplicate(group, seen) ==
    IF group = <<>> THEN <<>>
    ELSE (IF InsertedLines(Head(group)) \in seen THEN <<>> ELSE <<InsertedLines(Head(group))>>)
         \o Deduplicate(Tail(group), seen \cup {InsertedLines(Head(group))})

RECURSIVE Flatten(_)
Flatten(seqs) == IF seqs = <<>> THEN <<>> ELSE Head(seqs) \o Flatten(Tail(seqs))

\* the lines of a group with the reset edits put first
GroupLinesResetFirst(args, file, line) ==
    Flatten(Deduplicate(EditsAt(args.reset, file, line) \o EditsAt(args.local, file, line)
                            \o EditsAt(args.chain, file, line), {}))

\* the lines inserted before one anchor line
GroupLines(args, file, line) ==
    Flatten(Deduplicate(EditsAt(args.local, file, line) \o EditsAt(args.reset, file, line)
                            \o EditsAt(args.chain, file, line), {}))

\* the anchor lines of the edits of a file
AnchorsOf(args, file) ==
    {e.line_number : e \in {x \in Range(args.local) \cup Range(args.reset) \cup Range(args.chain)
                                : x.file_path = file}}

Max(S) == CHOOSE x \in S : \A y \in S : y <= x

\* main under --apply after both loops: a loaded file and the three lists of edit
\* records for it.
InitMerge ==
    /\ CallChainIdle /\ ContextGraphIdle /\ SynthIdle /\ TableIdle
    /\ \E n \in 1..MaxFileLines :
          /\ source_map = [f \in {LoadedFile} |-> FileLines(n)]
          /\ all_patches \in
                EditLists(n, LAMBDA l : Patch(LoadedFile, l, FileLines(n)[l], LocalText))
          /\ all_reset_patches \in
                EditLists(n, LAMBDA l : ResetPatch(LoadedFile, l, ResetText))
          /\ all_chain_patches \in
                EditLists(n, LAMBDA l : CallChainPatch(LoadedFile, l, ChainText))
    /\ mainPc = "apply" /\ funcIdx = 0
    /\ updated_sources = <<>> /\ mergeTodo = {}

\* the call: the result starts as the loaded lines, every anchor is to be applied
ApplyPatches ==
    /\ mainPc = "apply"
    /\ updated_sources' = source_map
    /\ mergeTodo' = AnchorsOf(ApplyArguments(source_map, all_patches, all_reset_patches,
                                             all_chain_patches), LoadedFile)
    /\ mainPc' = "merging"
    /\ UNCHANGED <<source_map, all_patches, all_reset_patches, all_chain_patches, funcIdx,
                   ccVars, cgVars, synVars, tabVars>>

\* the group of the highest anchor still to be applied goes in before its line
MergeGroup ==
    /\ mainPc = "merging" /\ mergeTodo # {}
    /\ LET args  == ApplyArguments(source_map, all_patches, all_reset_patches,
                                   all_chain_patches)
           line  == Max(mergeTodo)
           lines == updated_sources[LoadedFile]
       IN  /\ updated_sources' =
                 [updated_sources EXCEPT ![LoadedFile] =
                     SubSeq(lines, 1, line - 1) \o GroupLines(args, LoadedFile, line)
                         \o SubSeq(lines, line, Len(lines))]
           /\ mergeTodo' = mergeTodo \ {line}
    /\ UNCHANGED <<mainVars, ccVars, cgVars, synVars, tabVars>>

\* apply_patches returns updated_sources
MergeReturn ==
    /\ mainPc = "merging" /\ mergeTodo = {}
    /\ mainPc' = "applied"
    /\ UNCHANGED <<source_map, all_patches, all_reset_patches, all_chain_patches, funcIdx,
                   mergeVars, ccVars, cgVars, synVars, tabVars>>

NextMerge ==
    \/ ApplyPatches
    \/ MergeGroup
    \/ MergeReturn

SpecMerge == InitMerge /\ [][NextMerge]_vars

(***************************************************************************)
(* Properties of the patch merger.                                         *)
(***************************************************************************)
\* the input and the output lines of the file
InputLines == source_map[LoadedFile]
OutputLines == updated_sources[LoadedFile]

\* the edit records handed to the merger, each with the rank of its kind
RankedEdits ==
    {<<1, all_patches[i]>> : i \in DOMAIN all_patches}
        \cup {<<2, all_reset_patches[i]>> : i \in DOMAIN all_reset_patches}
        \cup {<<3, all_chain_patches[i]>> : i \in DOMAIN all_chain_patches}

IsInputLine(line) == line \in Range(InputLines)

\* the place of input line l in the output
PlaceOf(l) == CHOOSE k \in DOMAIN OutputLines : OutputLines[k] = InputLines[l]

\* the places k at which the inserted lines of an edit stand in the output, in the run
\* of inserted lines that ends right before the input line of its anchor
BlocksOf(edit) ==
    LET anchor == PlaceOf(edit.line_number)
        text   == InsertedLines(edit)
    IN  {k \in 1..(anchor - Len(text)) :
            /\ SubSeq(OutputLines, k, k + Len(text) - 1) = text
            /\ \A j \in k..(anchor - 1) : ~IsInputLine(OutputLines[j])}

\* C18: in the merged output the inserted lines of every edit stand before the input
\* line of its anchor with inserted lines only in between, those of a local edit
\* before those of a reset edit before those of a call-chain edit of the same anchor;
\* and the output without the inserted lines is the input, line for line.
C18_InsertedBeforeAnchorsInputKept ==
    mainPc = "applied" =>
        /\ SelectSeq(OutputLines, IsInputLine) = InputLines
        /\ \A e \in RankedEdits :
              LET blocks == BlocksOf(e[2])
              IN  /\ blocks # {}
                  /\ \A f \in RankedEdits :
                        (e[1] < f[1] /\ e[2].line_number = f[2].line_number) =>
                            \E k \in blocks : \E m \in BlocksOf(f[2]) :
                                k + Len(InsertedLines(e[2])) <= m

\* C18 witness: a merge has returned for edits of all three kinds on one anchor and an
\* edit on a later anchor.
C18_MergedThreeKindsOnOneAnchor ==
    /\ mainPc = "applied"
    /\ \E e, f, g, h \in RankedEdits :
          /\ e[1] = 1 /\ f[1] = 2 /\ g[1] = 3
          /\ e[2].line_number = f[2].line_number /\ f[2].line_number = g[2].line_number
          /\ h[2].line_number > e[2].line_number

RECURSIVE SumSeq(_)
\* the sum of a sequence of numbers
SumSeq(seq) == IF seq = <<>> THEN 0 ELSE Head(seq) + SumSeq(Tail(seq))

\* the number of lines that the records of a list insert
InsertedCount(list) == SumSeq([i \in DOMAIN list |-> Len(InsertedLines(list[i]))])

\* C19 as stated: the output has as many lines as the input plus the inserted lines of
\* all edit records of the file, byte-identical insertions on one anchor included.
C19_CountIsInputPlusAllInserted ==
    mainPc = "applied" =>
        Len(OutputLines) = Len(InputLines) + InsertedCount(all_patches)
                             + InsertedCount(all_reset_patches)
                             + InsertedCount(all_chain_patches)

\* the distinct (anchor, inserted lines) of the edit records
DistinctInsertions == {<<e[2].line_number, InsertedLines(e[2])>> : e \in RankedEdits}

RECURSIVE LinesIn(_)
\* the number of lines of a set of (anchor, inserted lines)
LinesIn(S) ==
    IF S = {} THEN 0
    ELSE LET d == CHOOSE x \in S : TRUE IN Len(d[2]) + LinesIn(S \ {d})

\* C19 as amended: the output has as many lines as the input plus the inserted lines of
\* the edit records that are left when byte-identical insertions on one anchor are
\* counted once.
C19_CountIsInputPlusDistinctInserted ==
    mainPc = "applied" =>
        Len(OutputLines) = Len(InputLines) + LinesIn(DistinctInsertions)

\* C19 witness: a merge has returned for edit records with a byte-identical repetition
\* on one anchor and an edit of another kind.
C19_MergedWithRepeatedInsertion ==
    /\ mainPc = "applied"
    /\ \E i, j \in DOMAIN all_chain_patches : i # j /\ all_chain_patches[i] = all_chain_patches[j]
    /\ all_patches # <<>>

====
